---- MODULE Spec2Model ----
(***************************************************************************)
(* The financial-sentiment pipeline.                                       *)
(*   - Sentiment aggregation and advice decision:                          *)
(*     app.compute_advice_from_df (src/src/app.py) and                     *)
(*     model.compute_summary (src/src/model.py), applied to bounded pandas *)
(*     DataFrames (Spec, SpecCounts, SpecOrder).                           *)
(*   - preprocess.preprocess_news on bounded raw files (SpecPreprocess).   *)
(*   - app.run_pipeline running ingestion.py, preprocess.py and model.py   *)
(*     over the data directory (SpecPipeline).                             *)
(*   - The read endpoints /latest_results and /advice over the tracking    *)
(*     store and the processed directory (SpecApi).                        *)
(* Each specification moves its own group of variables and leaves the      *)
(* others at their idle values.                                            *)
(*                                                                         *)
(* Numbers.  A Python float is modelled as an exact rational n/d (d > 0)   *)
(* or as NaN.  For every count and total up to 400 the float expression    *)
(* (c / total) * 100 compares with 25, 45, 50 and 40 exactly as the        *)
(* rational 100*c/total does, and round(x, 3) is the nearest multiple of   *)
(* 0.001 (a tie needs a total that is a multiple of 64), so within the     *)
(* bounds below the rational model and the float code agree.  A score is   *)
(* the double v + lo * 2^-53 (v an integer, lo a small integer); the sum   *)
(* of scores is IEEE-754 addition, rounded to nearest, ties to even, in    *)
(* row order (numpy adds fewer than 8 values one after the other).         *)
(*                                                                         *)
(* pandas.  Behaviour is that of pandas 1.x/2.x with object-dtype strings: *)
(* astype(str) turns a missing cell into the string "nan"; value_counts()  *)
(* drops missing cells; mean() skips missing cells, is NaN when nothing is *)
(* left, and raises TypeError on a non-numeric cell; df[col] raises        *)
(* KeyError for an absent column; df.empty is true with no rows or no      *)
(* columns.                                                                *)
(***************************************************************************)
EXTENDS Integers, Sequences, FiniteSets, TLC

VARIABLES df, called, result,                  \* an aggregator call
          news_csv, processed_csv, preprocessed, \* a preprocess_news call
          pc, logs, response, runs, work,        \* run_pipeline
          raw, files, today,                     \* the data directory
          metrics, cmds, logged,                 \* the last run of model.py
          store, csvdir, endpoint, consulted, reply \* GET /advice, /latest_results

aggVars == <<df, called, result>>
prepVars == <<news_csv, processed_csv, preprocessed>>
dataVars == <<raw, files, today>>
modelVars == <<metrics, cmds, logged>>
pipeVars == <<pc, logs, response, runs, work, dataVars, modelVars>>
apiVars == <<store, csvdir, endpoint, consulted, reply>>
vars == <<aggVars, prepVars, pipeVars, apiVars>>

\* Largest number of rows of a frame with arbitrary cells (Spec).
MaxRows == 3
\* Largest number of rows of a frame grouped by label (SpecCounts).
MaxTotal == 20
\* Largest number of titles of a raw news file (SpecPreprocess).
MaxTitles == 3
\* Largest number of calls of run_pipeline (SpecPipeline).
MaxRuns == 2
\* Number of days the pipeline runs over (SpecPipeline).
MaxDays == 2
\* The number of records of sample_results: tail(10).
SampleSize == 10

(***************************************************************************)
(* Floats                                                                  *)
(***************************************************************************)
Rat(n, d) == [nan |-> FALSE, n |-> n, d |-> d, lo |-> 0]
NaN == [nan |-> TRUE, n |-> 0, d |-> 1, lo |-> 0]
Zero == Rat(0, 1)

\* x == y, x >= k, x <= k, x > k on floats; every comparison with NaN is false.
FEq(x, y) == ~x.nan /\ ~y.nan /\ x.n * y.d = y.n * x.d
FGe(x, k) == ~x.nan /\ x.n >= k * x.d
FLe(x, k) == ~x.nan /\ x.n <= k * x.d
FGt(x, k) == ~x.nan /\ x.n > k * x.d

(***************************************************************************)
(* DataFrames                                                              *)
(***************************************************************************)
\* A missing label cell (NaN in an object column).
NA == "<NA>"
LabelCells == {"positive", "Positive", "POSITIVE", "neutral", "negative", "Hold", NA}

Num(v) == [t |-> "num", v |-> v, lo |-> 0]
NanCell == [t |-> "nan", v |-> 0, lo |-> 0]
StrCell == [t |-> "str", v |-> 0, lo |-> 0]
\* The score 2^-53, as of an article whose positive and negative
\* probabilities are both next to zero.
Tiny == [t |-> "num", v |-> 0, lo |-> 1]
ScoreCells == {Num(0 - 1), Num(2), NanCell, StrCell}

NoneDf == [none |-> TRUE, columns |-> {}, rows |-> <<>>]
Frame(columns, rows) == [none |-> FALSE, columns |-> columns, rows |-> rows]

\* The column sets of the frames: no column at all, or the title column the
\* pipeline always writes, with or without the two classifier columns.
Shapes ==
    { {},
      {"title"},
      {"title", "sentiment_label"},
      {"title", "sentiment_score"},
      {"title", "sentiment_label", "sentiment_score"} }

\* The cells of a row; the cell of an absent column is a placeholder nothing reads.
RowSet(columns) ==
    [ sentiment_label : IF "sentiment_label" \in columns THEN LabelCells ELSE {NA},
      sentiment_score : IF "sentiment_score" \in columns THEN ScoreCells ELSE {NanCell} ]

\* d is None or a frame of at most MaxRows rows over one of the column sets.
IsFrameInput(d) ==
    \/ d = NoneDf
    \/ \E c \in Shapes : \E k \in 0..MaxRows : \E r \in [1..k -> RowSet(c)] :
          d = Frame(c, r)

\* p positive, n neutral, g negative and h "hold" rows, in this order, each
\* with score 1.
GroupedRows(p, n, g, h) ==
    [ i \in 1..(p + n + g + h) |->
        [ sentiment_label |->
              IF i <= p THEN "positive"
              ELSE IF i <= p + n THEN "neutral"
              ELSE IF i <= p + n + g THEN "negative"
              ELSE "hold",
          sentiment_score |-> Num(1) ] ]

\* d is a frame of at most MaxTotal rows grouped by lower-case label.
IsGroupedInput(d) ==
    \E p \in 0..MaxTotal : \E n \in 0..(MaxTotal - p) : \E g \in 0..(MaxTotal - p - n) :
      \E h \in 0..(MaxTotal - p - n - g) :
        d = Frame({"title", "sentiment_label", "sentiment_score"}, GroupedRows(p, n, g, h))

\* d is a frame of at most MaxRows rows with both classifier columns, whose
\* scores are 1.0, 2^-53 or missing.
IsOrderInput(d) ==
    \E k \in 0..MaxRows :
      \E r \in [1..k -> [ sentiment_label : {"positive", "neutral", "Hold"},
                          sentiment_score : {Num(1), Tiny, NanCell} ]] :
        d = Frame({"title", "sentiment_label", "sentiment_score"}, r)

\* df.empty
empty(d) == Len(d.rows) = 0 \/ d.columns = {}

\* str.lower() on the label strings of the model.
lower(s) ==
    CASE s = "Positive" -> "positive"
      [] s = "POSITIVE" -> "positive"
      [] s = "Hold" -> "hold"
      [] OTHER -> s

\* astype(str): a missing cell becomes the string "nan".
astype_str(s) == IF s = NA THEN "nan" ELSE s

\* The counts of the last two cells only, as of a sample df.tail(2).
value_counts_tail(cells) ==
    LET last == { i \in DOMAIN cells : i + 2 > Len(cells) }
    IN [ k \in { cells[i] : i \in last } \ {NA} |->
           Cardinality({ i \in last : cells[i] = k }) ]

\* Series.value_counts().to_dict() of a sequence of label cells: missing
\* cells are dropped, every other value is a key with its number of cells.
value_counts(cells) ==
    [ k \in { cells[i] : i \in DOMAIN cells } \ {NA} |->
        Cardinality({ i \in DOMAIN cells : cells[i] = k }) ]

RECURSIVE SumOver(_, _)
SumOver(f, keys) ==
    IF keys = {} THEN 0
    ELSE LET k == CHOOSE x \in keys : TRUE
         IN f[k] + SumOver(f, keys \ {k})

\* sum(counts.values())
sum_values(counts) == SumOver(counts, DOMAIN counts)

\* counts.get(key, 0)
get(counts, key) == IF key \in DOMAIN counts THEN counts[key] ELSE 0

\* Column df[name] as the sequence of its cells.
column(d, name) == [ i \in DOMAIN d.rows |-> d.rows[i][name] ]

RECURSIVE SumScores(_, _)
SumScores(cells, idx) ==
    IF idx = {} THEN 0
    ELSE LET i == CHOOSE x \in idx : TRUE
         IN cells[i].v + SumScores(cells, idx \ {i})

\* n/d (d > 0) rounded to the nearest integer, ties to even.
RoundHalfEven(n, d) ==
    LET q == n \div d
        r == n % d
    IN IF 2 * r > d THEN q + 1
       ELSE IF 2 * r < d THEN q
       ELSE IF q % 2 = 0 THEN q ELSE q + 1

RECURSIVE Pow2Floor(_)
\* The largest power of two that is at most m (m >= 1).
Pow2Floor(m) == IF m < 2 THEN 1 ELSE 2 * Pow2Floor(m \div 2)

\* The spacing of the doubles around v + lo * 2^-53, in units of 2^-53.
ulp(v, lo) ==
    LET m == IF v > 0 THEN (IF lo < 0 THEN v - 1 ELSE v)
             ELSE IF v < 0 THEN (IF lo > 0 THEN (0 - v) - 1 ELSE 0 - v)
             ELSE 0
    IN IF m = 0 THEN 1 ELSE 2 * Pow2Floor(m)

\* x + y on doubles: the exact sum rounded to the nearest double, ties to even.
float_add(x, y) ==
    LET v == x.v + y.v
        lo == x.lo + y.lo
        g == ulp(v, lo)
    IN [v |-> v, lo |-> g * RoundHalfEven(lo, g)]

RECURSIVE float_sum(_, _, _)
\* The sum of cells[i..], added to acc one after the other; a missing cell
\* counts as 0.0.
float_sum(cells, i, acc) ==
    IF i > Len(cells) THEN acc
    ELSE float_sum(cells, i + 1,
                   IF cells[i].t = "num" THEN float_add(acc, cells[i]) ELSE acc)

\* The double nearest to (n + lo * 2^-53) / d.
Quotient(n, lo, d) == [nan |-> FALSE, n |-> n, d |-> d, lo |-> lo]

\* Series.mean() of a score column: TypeError on a non-numeric cell, else the
\* sum of the cells that hold a number over their count, NaN when no cell does.
mean(cells) ==
    LET numeric == { i \in DOMAIN cells : cells[i].t = "num" }
        total == float_sum(cells, 1, [v |-> 0, lo |-> 0])
    IN IF \E i \in DOMAIN cells : cells[i].t = "str"
       THEN [raised |-> "TypeError", value |-> NaN]
       ELSE IF numeric = {}
       THEN [raised |-> "none", value |-> NaN]
       ELSE [raised |-> "none", value |-> Quotient(total.v, total.lo, Cardinality(numeric))]

\* (count / total) * 100 if total > 0 else 0.0
Pct(count, total) == IF total > 0 THEN Rat(100 * count, total) ELSE Zero

\* round(x, 2) in the place of round(x, 3).
round3_two_digits(x) == Rat(RoundHalfEven(100 * x.n, x.d), 100)

\* round(x, 3)
round3(x) == Rat(RoundHalfEven(1000 * x.n, x.d), 1000)

GOOD == "GOOD TIME TO BUY STOCKS"
NORMAL == "NORMAL DAY TO DO TRANSACTIONS"
NOTGOOD == "NOT GOOD TO INVEST"
\* The source writes an em dash; the model writes it in ASCII.
MIXED == "MIXED SIGNALS - USE CAUTION"
NODATA == "NO DATA"

\* The chain with the neutral-band test moved in front of the first test.
app_advice_band_first(positive, neutral, negative) ==
    IF FGe(neutral, 45) /\ FLe(neutral, 50) THEN NORMAL
    ELSE IF FGe(positive, 25) /\ FGe(neutral, 25) THEN GOOD
    ELSE IF FGt(negative, 40) THEN NOTGOOD
    ELSE MIXED

\* The chain with the neutral band open at both ends: 45 < neutral < 50.
app_advice_open_band(positive, neutral, negative) ==
    IF FGe(positive, 25) /\ FGe(neutral, 25) THEN GOOD
    ELSE IF FGt(neutral, 45) /\ ~FGe(neutral, 50) THEN NORMAL
    ELSE IF FGt(negative, 40) THEN NOTGOOD
    ELSE MIXED

\* The chain with the negative test moved in front of the neutral-band test.
app_advice_negative_first(positive, neutral, negative) ==
    IF FGe(positive, 25) /\ FGe(neutral, 25) THEN GOOD
    ELSE IF FGt(negative, 40) THEN NOTGOOD
    ELSE IF FGe(neutral, 45) /\ FLe(neutral, 50) THEN NORMAL
    ELSE MIXED

\* The if/elif chain of compute_advice_from_df.
app_advice(positive, neutral, negative) ==
    IF FGe(positive, 25) /\ FGe(neutral, 25) THEN GOOD
    ELSE IF FGe(neutral, 45) /\ FLe(neutral, 50) THEN NORMAL
    ELSE IF FGt(negative, 40) THEN NOTGOOD
    ELSE MIXED

\* The if/elif chain of compute_summary.
model_advice(positive, neutral, negative) ==
    IF FGe(positive, 25) /\ FGe(neutral, 25) THEN GOOD
    ELSE IF FGe(neutral, 45) /\ FLe(neutral, 50) THEN NORMAL
    ELSE IF FGt(negative, 40) THEN NOTGOOD
    ELSE MIXED

Summary(avg, positive, neutral, negative, counts, advice) ==
    [ avg_sentiment |-> avg, positive |-> positive, neutral |-> neutral,
      negative |-> negative, counts |-> counts, advice |-> advice ]

\* What a call left behind: the Summary it returned, or the exception it raised.
Return(s) == [raised |-> "none", summary |-> s]
Raise(e) == [raised |-> e, summary |-> Summary(Zero, Zero, Zero, Zero, <<>>, "")]
NoResult == Raise("pending")

\* No aggregator is called.
AggIdle == df = NoneDf /\ called = "none" /\ result = NoResult
\* preprocess_news is not called.
PrepIdle ==
    /\ news_csv = [exists |-> FALSE, titles |-> <<>>]
    /\ processed_csv = [exists |-> FALSE, titles |-> <<>>]
    /\ preprocessed = "none"

\* run_pipeline's list of steps.
steps == <<"ingestion.py", "preprocess.py", "model.py">>
NoResponse == [status |-> "none", step |-> "none"]
NotRun == [ s \in {steps[i] : i \in DOMAIN steps} |-> "notrun" ]
\* run_pipeline is not called and the data directory is empty.
PipeIdle ==
    /\ pc = "idle" /\ logs = <<>> /\ response = NoResponse /\ runs = 0 /\ work = NotRun
    /\ raw = FALSE /\ files = {} /\ today = 1
    /\ metrics = NoResult /\ cmds = <<>> /\ logged = NoResult

\* The reply of an endpoint: whether it is an error dict, its "source" and the
\* advice it publishes.
Null == "<None>"
NoSource == "<absent>"
NoReply == [ok |-> FALSE, source |-> NoSource, advice |-> Null]
NoStore == [state |-> "no_experiment", advice |-> Null,
            artifact |-> [kind |-> "none", df |-> NoneDf]]
NoDir == [state |-> "no_dir", df |-> NoneDf, restorable |-> FALSE]
\* No endpoint is called; no tracking store and no processed directory.
ApiIdle ==
    /\ store = NoStore /\ csvdir = NoDir
    /\ endpoint = "none" /\ consulted = <<>> /\ reply = NoReply

\* app.compute_advice_from_df(df)
compute_advice_from_df(d) ==
    IF d.none \/ empty(d)
    THEN Return(Summary(Zero, Zero, Zero, Zero, <<>>, NODATA))
    ELSE
      LET got == IF "sentiment_label" \in d.columns
                 THEN column(d, "sentiment_label") ELSE <<>>
          labels == [ i \in DOMAIN got |-> lower(astype_str(got[i])) ]
          counts == value_counts(labels)
          total == sum_values(counts)
          m == IF "sentiment_score" \in d.columns /\ Len(d.rows) > 0
               THEN mean(column(d, "sentiment_score"))
               ELSE [raised |-> "none", value |-> Zero]
          positive == Pct(get(counts, "positive"), total)
          neutral == Pct(get(counts, "neutral"), total)
          negative == Pct(get(counts, "negative"), total)
      IN IF m.raised # "none" THEN Raise(m.raised)
         ELSE Return(Summary(m.value, round3(positive), round3(neutral),
                             round3(negative), counts,
                             app_advice(positive, neutral, negative)))

\* model.compute_summary(df)
compute_summary(d) ==
    IF d.none THEN Raise("TypeError")
    ELSE IF "sentiment_label" \notin d.columns THEN Raise("KeyError")
    ELSE
      LET label_counts == value_counts(column(d, "sentiment_label"))
          total == IF DOMAIN label_counts # {} THEN sum_values(label_counts) ELSE 0
          m == IF Len(d.rows) > 0
               THEN IF "sentiment_score" \in d.columns
                    THEN mean(column(d, "sentiment_score"))
                    ELSE [raised |-> "KeyError", value |-> NaN]
               ELSE [raised |-> "none", value |-> Zero]
          positive == Pct(get(label_counts, "positive"), total)
          neutral == Pct(get(label_counts, "neutral"), total)
          negative == Pct(get(label_counts, "negative"), total)
      IN IF m.raised # "none" THEN Raise(m.raised)
         ELSE Return(Summary(m.value, positive, neutral, negative, label_counts,
                             model_advice(positive, neutral, negative)))

(***************************************************************************)
(* preprocess.py: titles are strings of characters; the raw file is the    *)
(* sequence of its titles as pd.read_csv returns them (an empty field is   *)
(* read as a missing title).                                               *)
(***************************************************************************)
Alnum == {"a", "b"}
Whitespace == {" "}
Chars == Alnum \cup Whitespace \cup {"!"}
Blank == <<>>
\* A missing title (NaN), told apart from every string.
NoTitle == <<NA>>

\* The file is not there.
Missing == [exists |-> FALSE, titles |-> <<>>]
File(titles) == [exists |-> TRUE, titles |-> titles]

\* The titles pd.read_csv can return: missing, or one or two characters.
TitleCells == {NoTitle} \cup [1..1 -> Chars] \cup [1..2 -> Chars]

\* f is no file or a raw file of at most MaxTitles titles.
IsRawInput(f) ==
    \/ f = Missing
    \/ \E k \in 0..MaxTitles : \E t \in [1..k -> TitleCells] : f = File(t)

RECURSIVE lstrip(_)
lstrip(t) == IF t # <<>> /\ Head(t) \in Whitespace THEN lstrip(Tail(t)) ELSE t
RECURSIVE rstrip(_)
rstrip(t) ==
    IF t # <<>> /\ t[Len(t)] \in Whitespace THEN rstrip(SubSeq(t, 1, Len(t) - 1)) ELSE t
\* str.strip()
strip(t) == rstrip(lstrip(t))

\* df.drop_duplicates(subset=["title"]): the first row of every title stays
\* (missing titles count as equal).
RECURSIVE drop_duplicates(_)
drop_duplicates(titles) ==
    IF titles = <<>> THEN <<>>
    ELSE LET init == SubSeq(titles, 1, Len(titles) - 1)
             last == titles[Len(titles)]
         IN IF \E i \in DOMAIN init : init[i] = last
            THEN drop_duplicates(init)
            ELSE Append(drop_duplicates(init), last)

\* df[df["title"].notnull() & (df["title"].str.strip() != "")]
IsKept(t) == t # NoTitle /\ strip(t) # Blank
keep_titled(titles) == SelectSeq(titles, IsKept)

\* str.replace(r"[^a-zA-Z0-9\s]", "", regex=True)
IsWordOrSpace(c) == c \in Alnum \cup Whitespace
remove_punctuation(t) == SelectSeq(t, IsWordOrSpace)

\* The "Basic cleaning" of preprocess_news.
clean(titles) ==
    LET d == keep_titled(drop_duplicates(titles))
    IN [ i \in DOMAIN d |-> remove_punctuation(d[i]) ]

\* preprocess_news()
PreprocessNews ==
    /\ preprocessed = "none"
    /\ IF ~news_csv.exists
       THEN preprocessed' = "FileNotFoundError" /\ UNCHANGED processed_csv
       ELSE IF news_csv.titles = <<>>
       THEN preprocessed' = "ValueError" /\ UNCHANGED processed_csv
       ELSE /\ preprocessed' = "returned"
            /\ processed_csv' = File(clean(news_csv.titles))
    /\ UNCHANGED <<news_csv, aggVars, pipeVars, apiVars>>

NextPreprocess == PreprocessNews

InitPreprocess ==
    /\ IsRawInput(news_csv)
    /\ processed_csv = Missing
    /\ preprocessed = "none"
    /\ AggIdle
    /\ PipeIdle
    /\ ApiIdle

SpecPreprocess == InitPreprocess /\ [][NextPreprocess]_vars

(***************************************************************************)
(* The pipeline: run_pipeline runs the three scripts one after the other   *)
(* as subprocesses.  A script ends in one of three ways: its main logic    *)
(* ran to the end ("done"), its main logic raised an Exception, which the  *)
(* try/except around it prints ("failed"), or the interpreter ended before *)
(* or outside that try, as on a failing import at the top of the script or *)
(* a signal ("crashed").                                                   *)
(***************************************************************************)
Outcomes == {"done", "failed", "crashed"}

\* The exit code of a script: the except clause of __main__ only prints, so
\* the interpreter exits with 0 unless it crashed.
returncode(outcome) == IF outcome = "crashed" THEN 1 ELSE 0

\* File names of the processed directory.
NewsFile(date) == [kind |-> "news", date |-> date, time |-> 0, dvc |-> FALSE]
SentimentFile(date, time) == [kind |-> "sentiment", date |-> date, time |-> time, dvc |-> FALSE]
DvcFile(f) == [f EXCEPT !.dvc = TRUE]

\* The name as the sequence sorted() compares: after the common prefix
\* "processed_news_" comes a digit of the date (code 50, "2") or the "s" of
\* "sentiment_" (code 115), then the date and the time.
NameKey(f) == << IF f.kind = "news" THEN 50 ELSE 115, f.date, f.time >>

RECURSIVE SeqLess(_, _)
\* Lexicographic order of two sequences of numbers of the same length.
SeqLess(a, b) ==
    /\ a # <<>>
    /\ \/ Head(a) < Head(b)
       \/ Head(a) = Head(b) /\ SeqLess(Tail(a), Tail(b))

\* glob.glob("processed_news_*.csv")
glob(dir) == { f \in dir : ~f.dvc }

NoFile == [kind |-> "none", date |-> 0, time |-> 0, dvc |-> FALSE]

\* load_latest_processed(): sorted(glob(...))[-1], NoFile standing for the
\* FileNotFoundError.
load_latest_processed(dir) ==
    IF glob(dir) = {} THEN NoFile
    ELSE CHOOSE f \in glob(dir) :
            \A g \in glob(dir) : g = f \/ SeqLess(NameKey(g), NameKey(f))

CmdOutcomes == {"exit0", "nonzero", "oserror"}

\* A run_cmd that lets the exception of subprocess.run out.
run_cmd_unguarded(outcome) == IF outcome = "oserror" THEN "raised" ELSE "returned"

\* run_cmd(cmd): subprocess.run(cmd, check=False) inside try/except Exception.
run_cmd(outcome) == "returned"

\* dvc_track(file_path) with the outcomes o of its (up to) three commands:
\* the commands it ran, whether it raised, and whether the .dvc file exists.
dvc_track(o, existed) ==
    LET add == [cmd |-> "dvc add", outcome |-> o[1]]
        exists == existed \/ o[1] = "exit0"
        gitadd == [cmd |-> "git add", outcome |-> o[2]]
        commit == [cmd |-> "git commit", outcome |-> o[3]]
    IN IF run_cmd(o[1]) = "raised"
       THEN [ran |-> <<add>>, raised |-> TRUE, exists |-> exists]
       ELSE IF ~exists
       THEN [ran |-> <<add>>, raised |-> FALSE, exists |-> exists]
       ELSE IF run_cmd(o[2]) = "raised"
       THEN [ran |-> <<add, gitadd>>, raised |-> TRUE, exists |-> exists]
       ELSE [ran |-> <<add, gitadd, commit>>, raised |-> run_cmd(o[3]) = "raised",
             exists |-> exists]

\* The frames run_sentiment_analysis hands to compute_summary.
SentimentFrames ==
    { Frame({"title", "sentiment_label", "sentiment_score"}, GroupedRows(c[1], c[2], c[3], 0)) :
        c \in {<<1, 1, 0>>, <<0, 1, 1>>} }

\* metrics = compute_summary(df) for these frames.
SentimentSummaries == { compute_summary(d) : d \in SentimentFrames }

\* ingestion.py as a script: the feed has articles and the raw file is
\* written, or it has none and the RuntimeError is caught.
IngestionMain(outcome) ==
    /\ raw' = (raw \/ outcome = "done")
    /\ UNCHANGED <<files, today, modelVars>>

\* preprocess.py as a script: preprocess_news raises without a raw file,
\* else writes processed_news_<date>.csv, which dvc_track then tracks if the
\* dvc command works.
PreprocessMain(outcome) ==
    /\ outcome = "done" => raw
    /\ outcome = "failed" => ~raw
    /\ \E added \in {"exit0", "nonzero"} :
          LET t == dvc_track(<<added, "exit0", "exit0">>, DvcFile(NewsFile(today)) \in files)
          IN files' = IF outcome = "done"
                      THEN files \cup {NewsFile(today)}
                                 \cup (IF t.exists THEN {DvcFile(NewsFile(today))} ELSE {})
                      ELSE files
    /\ UNCHANGED <<raw, today, modelVars>>

\* model.py as a script: the latest file is analysed, the result written as
\* processed_news_sentiment_<timestamp>.csv (the number of the request
\* standing for the time of day), summarised, tracked and logged.
ModelMain(outcome) ==
    LET latest_file == load_latest_processed(files)
        output_file == SentimentFile(today, runs)
    IN \/ /\ outcome = "crashed"
          /\ UNCHANGED <<files, modelVars>>
       \/ /\ outcome = "failed"
          /\ latest_file = NoFile
          /\ metrics' = NoResult /\ cmds' = <<>> /\ logged' = NoResult
          /\ UNCHANGED files
       \/ /\ latest_file # NoFile
          /\ \E m \in SentimentSummaries : \E o \in [1..3 -> CmdOutcomes] : \E logs_ok \in BOOLEAN :
               LET t == dvc_track(o, DvcFile(output_file) \in files)
               IN /\ metrics' = m
                  /\ cmds' = t.ran
                  /\ files' = files \cup {output_file}
                                    \cup (IF t.exists THEN {DvcFile(output_file)} ELSE {})
                  /\ logged' = IF t.raised THEN NoResult ELSE m
                  /\ outcome = IF t.raised \/ ~logs_ok THEN "failed" ELSE "done"
    /\ UNCHANGED <<raw, today>>

\* A loop that goes on whatever the exit code.
never_stops(code) == FALSE
\* if result.returncode != 0: return Failed
stops(code) == code # 0

Failed(step) == [status |-> "Failed", step |-> step]
Completed == [status |-> "Pipeline completed successfully", step |-> "none"]

\* POST /run_pipeline arrives.
StartPipeline ==
    /\ pc \in {"idle", "returned"}
    /\ runs < MaxRuns
    /\ runs' = runs + 1
    /\ pc' = "loop" /\ logs' = <<>> /\ response' = NoResponse /\ work' = NotRun
    /\ UNCHANGED <<aggVars, prepVars, dataVars, modelVars, apiVars>>

\* One turn of the loop of run_pipeline after run_script(step) ended with
\* the given outcome.
LoopBody(step, outcome) ==
    LET code == returncode(outcome)
    IN /\ work' = [work EXCEPT ![step] = outcome]
       /\ logs' = Append(logs, [step |-> step, returncode |-> code])
       /\ IF stops(code)
          THEN pc' = "returned" /\ response' = Failed(step)
          ELSE IF Len(logs) + 1 = Len(steps)
          THEN pc' = "returned" /\ response' = Completed
          ELSE pc' = "loop" /\ UNCHANGED response
       /\ UNCHANGED <<runs, aggVars, prepVars, apiVars>>

RunIngestion ==
    /\ pc = "loop" /\ steps[Len(logs) + 1] = "ingestion.py"
    /\ \E outcome \in Outcomes : IngestionMain(outcome) /\ LoopBody("ingestion.py", outcome)

RunPreprocess ==
    /\ pc = "loop" /\ steps[Len(logs) + 1] = "preprocess.py"
    /\ \E outcome \in Outcomes : PreprocessMain(outcome) /\ LoopBody("preprocess.py", outcome)

RunModel ==
    /\ pc = "loop" /\ steps[Len(logs) + 1] = "model.py"
    /\ \E outcome \in Outcomes : ModelMain(outcome) /\ LoopBody("model.py", outcome)

\* The date changes between two requests.
Midnight ==
    /\ pc \in {"idle", "returned"}
    /\ today < MaxDays
    /\ today' = today + 1
    /\ UNCHANGED <<aggVars, prepVars, apiVars, pc, logs, response, runs, work, raw, files, modelVars>>

NextPipeline == StartPipeline \/ RunIngestion \/ RunPreprocess \/ RunModel \/ Midnight

InitPipeline == AggIdle /\ PrepIdle /\ PipeIdle /\ ApiIdle

SpecPipeline == InitPipeline /\ [][NextPipeline]_vars

(***************************************************************************)
(* The read endpoints.  The tracking store is in one of four states: every *)
(* call raises, the experiment is missing, it has no run, or its latest    *)
(* run has (or has not) an advice param and a CSV under results/.  The     *)
(* processed directory is missing, has no sentiment CSV (one may come back *)
(* by dvc checkout), or has a latest sentiment CSV, readable or not.       *)
(***************************************************************************)
Verdicts == {GOOD, NORMAL, NOTGOOD, MIXED}

\* A results file of eleven records: three positive, then four neutral and
\* four negative ones; without the first one the advice is another.
LongFrame == Frame({"title", "sentiment_label", "sentiment_score"}, GroupedRows(3, 4, 4, 0))
\* A results file with a header and no record.
HeaderOnly == Frame({"title", "sentiment_label", "sentiment_score"}, <<>>)
ResultFrames == SentimentFrames \cup {LongFrame, HeaderOnly}

Artifacts ==
    { [kind |-> "none", df |-> NoneDf], [kind |-> "unreadable", df |-> NoneDf] }
        \cup { [kind |-> "csv", df |-> d] : d \in ResultFrames }

IsStore(st) ==
    \/ \E x \in {"error", "no_experiment", "no_runs"} :
          st = [state |-> x, advice |-> Null, artifact |-> [kind |-> "none", df |-> NoneDf]]
    \/ \E a \in Verdicts \cup {Null} : \E art \in Artifacts :
          st = [state |-> "run", advice |-> a, artifact |-> art]

IsCsvDir(c) ==
    \/ c = NoDir
    \/ \E r \in BOOLEAN : c = [state |-> "no_files", df |-> NoneDf, restorable |-> r]
    \/ c = [state |-> "unreadable", df |-> NoneDf, restorable |-> FALSE]
    \/ \E d \in ResultFrames : c = [state |-> "csv", df |-> d, restorable |-> FALSE]

\* df[cols].tail(10), cols the columns of the sample that df has.
tail(d) ==
    LET n == Len(d.rows)
    IN Frame(d.columns \cap {"title", "sentiment_label", "sentiment_score"},
             SubSeq(d.rows, IF n > SampleSize THEN n - SampleSize + 1 ELSE 1, n))

Ok(source, advice) == [ok |-> TRUE, source |-> source, advice |-> advice]
Error == [ok |-> FALSE, source |-> NoSource, advice |-> Null]
\* The block fell through to the CSV fallback.
Fallthrough == [ok |-> FALSE, source |-> "fallthrough", advice |-> Null]

\* summary["advice"] of compute_advice_from_df(d), or the given value when
\* the call raises.
advice_or(d, otherwise) ==
    LET r == compute_advice_from_df(d)
    IN IF r.raised = "none" THEN r.summary.advice ELSE otherwise

\* get_latest_results, lines 128-196: the MLflow block.
latest_results_mlflow(st) ==
    IF st.state # "run" THEN Fallthrough
    ELSE LET sample == IF st.artifact.kind = "csv" THEN tail(st.artifact.df).rows ELSE <<>>
             advice == IF st.advice = Null /\ sample # <<>>
                       THEN advice_or(tail(st.artifact.df), NODATA)
                       ELSE st.advice
         IN Ok("mlflow", advice)

\* The directory after the dvc checkout of lines 213-230, which brings the
\* file back or not.
checkout(c, restored) ==
    IF c.state = "no_files" /\ c.restorable /\ restored
    THEN [state |-> "csv", df |-> CHOOSE d \in SentimentFrames : TRUE, restorable |-> FALSE]
    ELSE c

\* get_latest_results, lines 199-260: the CSV fallback.
latest_results_csv(c) ==
    IF c.state \in {"no_dir", "no_files", "unreadable"} THEN Error
    ELSE IF empty(c.df) THEN Ok(NoSource, NODATA)
    ELSE LET r == compute_advice_from_df(c.df)
         IN IF r.raised = "none" THEN Ok("csv", r.summary.advice) ELSE Error

\* get_advice, lines 269-314: the MLflow block.
advice_mlflow(st) ==
    IF st.state # "run" THEN Fallthrough
    ELSE IF st.advice # Null THEN Ok("mlflow", st.advice)
    ELSE IF st.artifact.kind = "csv" /\ compute_advice_from_df(st.artifact.df).raised = "none"
    THEN Ok("mlflow_artifact", compute_advice_from_df(st.artifact.df).summary.advice)
    ELSE Fallthrough

\* get_advice, lines 317-339: the CSV fallback.
advice_csv(c) ==
    IF c.state \in {"no_dir", "no_files", "unreadable"} THEN Error
    ELSE LET r == compute_advice_from_df(c.df)
         IN IF r.raised = "none" THEN Ok("csv", r.summary.advice) ELSE Error

\* GET /latest_results
GetLatestResults ==
    /\ endpoint = "none"
    /\ endpoint' = "/latest_results"
    /\ LET first == latest_results_mlflow(store)
       IN IF first # Fallthrough
          THEN reply' = first /\ consulted' = <<"mlflow">> /\ UNCHANGED csvdir
          ELSE \E restored \in BOOLEAN :
                 /\ csvdir' = checkout(csvdir, restored)
                 /\ reply' = latest_results_csv(csvdir')
                 /\ consulted' = <<"mlflow", "csv">>
    /\ UNCHANGED <<store, aggVars, prepVars, pipeVars>>

\* GET /advice
GetAdvice ==
    /\ endpoint = "none"
    /\ endpoint' = "/advice"
    /\ LET first == advice_mlflow(store)
       IN IF first # Fallthrough
          THEN reply' = first /\ consulted' = <<"mlflow">>
          ELSE reply' = advice_csv(csvdir) /\ consulted' = <<"mlflow", "csv">>
    /\ UNCHANGED <<store, csvdir, aggVars, prepVars, pipeVars>>

NextApi == GetLatestResults \/ GetAdvice

InitApi ==
    /\ IsStore(store) /\ IsCsvDir(csvdir)
    /\ endpoint = "none" /\ consulted = <<>> /\ reply = NoReply
    /\ AggIdle /\ PrepIdle /\ PipeIdle

SpecApi == InitApi /\ [][NextApi]_vars

(***************************************************************************)
(* State machine: a frame is drawn, then one of the two aggregators is     *)
(* called on it.                                                           *)
(***************************************************************************)
CallApp ==
    /\ called = "none"
    /\ called' = "compute_advice_from_df"
    /\ result' = compute_advice_from_df(df)
    /\ UNCHANGED <<df, prepVars, pipeVars, apiVars>>

CallModel ==
    /\ called = "none"
    /\ called' = "compute_summary"
    /\ result' = compute_summary(df)
    /\ UNCHANGED <<df, prepVars, pipeVars, apiVars>>

Next == CallApp \/ CallModel

\* Frames of at most MaxRows rows with every combination of cells and columns.
Init ==
    /\ IsFrameInput(df)
    /\ called = "none"
    /\ result = NoResult
    /\ PrepIdle
    /\ PipeIdle
    /\ ApiIdle

Spec == Init /\ [][Next]_vars

\* Frames of at most MaxTotal rows, grouped by lower-case label.
InitCounts ==
    /\ IsGroupedInput(df)
    /\ called = "none"
    /\ result = NoResult
    /\ PrepIdle
    /\ PipeIdle
    /\ ApiIdle

SpecCounts == InitCounts /\ [][Next]_vars

\* The aggregators on frames whose scores differ in magnitude.
InitOrder ==
    /\ IsOrderInput(df)
    /\ called = "none"
    /\ result = NoResult
    /\ PrepIdle
    /\ PipeIdle
    /\ ApiIdle
SpecOrder == InitOrder /\ [][Next]_vars

(***************************************************************************)
(* Properties                                                              *)
(***************************************************************************)
\* The call returned a Summary.
Returned == called # "none" /\ result.raised = "none"

\* total_records = sum(counts.values()) of the returned Summary.
TotalRecords == sum_values(result.summary.counts)

\* 100 * counts[label] / total_records of the returned Summary, exactly.
Share(label) ==
    IF TotalRecords > 0 THEN Rat(100 * get(result.summary.counts, label), TotalRecords)
    ELSE Zero

Holds1 == FGe(Share("positive"), 25) /\ FGe(Share("neutral"), 25)
Holds2 == FGe(Share("neutral"), 45) /\ FLe(Share("neutral"), 50)
Holds3 == FGt(Share("negative"), 40)

\* The call took the early return of compute_advice_from_df.
EarlyReturn == called = "compute_advice_from_df" /\ (df.none \/ empty(df))

\* C1: whenever an aggregator evaluates the advice rules, the advice is one of
\* the four verdicts and is the one of the first rule, in the order 1, 2, 3,
\* whose condition the percentages meet, the fourth verdict when none is met.
C1_AdviceByFirstMatch ==
    (Returned /\ ~EarlyReturn) =>
        /\ result.summary.advice \in {GOOD, NORMAL, NOTGOOD, MIXED}
        /\ (result.summary.advice = GOOD) <=> Holds1
        /\ (result.summary.advice = NORMAL) <=> (~Holds1 /\ Holds2)
        /\ (result.summary.advice = NOTGOOD) <=> (~Holds1 /\ ~Holds2 /\ Holds3)
        /\ (result.summary.advice = MIXED) <=> (~Holds1 /\ ~Holds2 /\ ~Holds3)

\* A call whose percentages meet rule 1 and rule 2 at once and that answered
\* with the verdict of rule 1.
C1_Witness ==
    Returned /\ ~EarlyReturn /\ Holds1 /\ Holds2 /\ result.summary.advice = GOOD

\* The frame has the two record fields as columns.
HasFields == ~df.none /\ {"sentiment_label", "sentiment_score"} \subseteq df.columns

\* The Summary of no data.
NoDataSummary == Summary(Zero, Zero, Zero, Zero, <<>>, NODATA)

\* C2: aggregating an empty record collection returns exactly the all-zero
\* Summary with advice "NO DATA" and raises nothing.
C2_EmptyGivesNoData ==
    (called # "none" /\ HasFields /\ Len(df.rows) = 0) => result = Return(NoDataSummary)

\* C3: in every Summary compute_advice_from_df returns, total_records is 0
\* exactly when the advice is "NO DATA", and then the three percentages are 0.0.
C3_NoDataIffNoRecords ==
    (Returned /\ called = "compute_advice_from_df") =>
        /\ (TotalRecords = 0) <=> (result.summary.advice = NODATA)
        /\ (TotalRecords = 0) =>
              /\ FEq(result.summary.positive, Zero)
              /\ FEq(result.summary.neutral, Zero)
              /\ FEq(result.summary.negative, Zero)

\* x + y and x - y on floats that are numbers.
FAdd(x, y) == IF x.d = y.d THEN Rat(x.n + y.n, x.d) ELSE Rat(x.n * y.d + y.n * x.d, x.d * y.d)
FSub(x, y) == IF x.d = y.d THEN Rat(x.n - y.n, x.d) ELSE Rat(x.n * y.d - y.n * x.d, x.d * y.d)

\* |x| <= num / den
Within(x, num, den) == x.n * den <= num * x.d /\ (0 - x.n) * den <= num * x.d

\* The sum of the three percentages as the Summary returns them, less
\* 100 * (positive + neutral + negative records) / total_records.
SumError ==
    FSub(FAdd(FAdd(result.summary.positive, result.summary.neutral), result.summary.negative),
         FAdd(FAdd(Share("positive"), Share("neutral")), Share("negative")))

InRange(x) == FGe(x, 0) /\ FLe(x, 100)

PercentagesInRange ==
    /\ InRange(result.summary.positive)
    /\ InRange(result.summary.neutral)
    /\ InRange(result.summary.negative)

\* C4 as claimed: for a non-empty collection the returned percentages sum to
\* within 0.001 of 100 * (canonical records) / total_records, each in [0, 100].
C4_SumWithinOneThousandth ==
    (Returned /\ TotalRecords > 0) => (Within(SumError, 1, 1000) /\ PercentagesInRange)

\* C4 as amended: the returned percentages sum to within 0.0015 (three
\* roundings of at most 0.0005 each) of that value, each in [0, 100].
C4_SumWithinThreeHalfThousandths ==
    (Returned /\ TotalRecords > 0) => (Within(SumError, 3, 2000) /\ PercentagesInRange)

\* A call on a non-empty collection whose rounded percentages are more than
\* 0.001 away from the exact sum.
C4_Witness ==
    Returned /\ TotalRecords > 0 /\ called = "compute_advice_from_df" /\ ~Within(SumError, 1, 1000)

\* Number of rows whose label, lower-cased, is the given string.
RowsLabelled(label) ==
    Cardinality({ i \in DOMAIN df.rows :
        df.rows[i].sentiment_label # NA /\ lower(df.rows[i].sentiment_label) = label })

\* C5: labels that differ only in letter case are counted in one lower-cased
\* bucket and contribute to the positive percentage; every key of counts is
\* lower-case.
C5_CaseInsensitiveCounts ==
    (Returned /\ "sentiment_label" \in df.columns /\ ~empty(df)) =>
        /\ \A k \in DOMAIN result.summary.counts : lower(k) = k
        /\ get(result.summary.counts, "positive") = RowsLabelled("positive")
        /\ RowsLabelled("positive") > 0 => FGt(result.summary.positive, 0)

\* The frame has a row whose label is a string outside the canonical three.
HasUnknownLabel ==
    \E i \in DOMAIN df.rows :
        /\ df.rows[i].sentiment_label # NA
        /\ lower(df.rows[i].sentiment_label) \notin {"positive", "neutral", "negative"}

\* C6: a record with a label outside the canonical three is kept in counts
\* under its own lower-cased label, counts sums to the number of records, and
\* the canonical counts are those of the canonical records alone.
C6_UnknownLabelsKept ==
    (Returned /\ "sentiment_label" \in df.columns /\ HasUnknownLabel) =>
        /\ \A i \in DOMAIN df.rows :
              df.rows[i].sentiment_label # NA =>
                  lower(df.rows[i].sentiment_label) \in DOMAIN result.summary.counts
        /\ TotalRecords = Len(df.rows)
        /\ \A c \in {"positive", "neutral", "negative"} :
              get(result.summary.counts, c) = RowsLabelled(c)

\* The rows that hold a numeric score.
Scored ==
    IF ~df.none /\ "sentiment_score" \in df.columns
    THEN { i \in DOMAIN df.rows : df.rows[i].sentiment_score.t = "num" }
    ELSE {}

\* No score cell of the frame is non-numeric.
ScoresNumericOrMissing ==
    \A i \in DOMAIN df.rows : df.rows[i].sentiment_score.t # "str"

\* C7: the avg_sentiment of compute_advice_from_df is the mean of the scores
\* of the records that have one, and 0.0 when there is no record, no score
\* field or no score at all.
C7_MeanOfPresentScores ==
    (/\ called = "compute_advice_from_df" /\ ~df.none
     /\ "sentiment_label" \in df.columns /\ ScoresNumericOrMissing) =>
        /\ result.raised = "none"
        /\ FEq(result.summary.avg_sentiment,
               IF Scored = {} THEN Zero
               ELSE Rat(SumScores(column(df, "sentiment_score"), Scored), Cardinality(Scored)))

\* C8: on every frame of the documented domain (empty, missing or unknown
\* labels, missing or non-numeric scores, absent score field)
\* compute_advice_from_df returns a Summary and raises nothing.
C8_NoExceptionEscapes ==
    (called = "compute_advice_from_df" /\ ~df.none /\ "sentiment_label" \in df.columns) =>
        result.raised = "none"

\* C9: when rule 1 is not met and neutral lies in [45, 50], endpoints
\* included, compute_advice_from_df answers NORMAL whatever the negative share.
C9_NeutralBandGivesNormal ==
    (Returned /\ called = "compute_advice_from_df" /\ TotalRecords > 0 /\ ~Holds1 /\ Holds2) =>
        result.summary.advice = NORMAL

\* A call with neutral exactly 45 percent, negative above 40 percent and rule
\* 1 not met.
C9_Witness ==
    /\ Returned /\ called = "compute_advice_from_df" /\ TotalRecords > 0
    /\ ~Holds1 /\ Holds3
    /\ FEq(Share("neutral"), Rat(45, 1))
    /\ result.summary.advice = NORMAL

\* C10 as claimed: at most one of the three rule conditions holds of the
\* percentages an aggregator produces.
C10_RulesDisjoint ==
    (Returned /\ TotalRecords > 0) =>
        /\ ~(Holds1 /\ Holds2)
        /\ ~(Holds1 /\ Holds3)
        /\ ~(Holds2 /\ Holds3)

\* C10 as amended: the three conditions never hold all at once of the returned
\* percentages, two of them can, and then the advice is that of the earlier rule.
C10_EarlierRuleWins ==
    (Returned /\ TotalRecords > 0) =>
        /\ ~(/\ FGe(result.summary.positive, 25) /\ FGe(result.summary.neutral, 25)
             /\ FGe(result.summary.neutral, 45) /\ FLe(result.summary.neutral, 50)
             /\ FGt(result.summary.negative, 40))
        /\ (Holds1 /\ (Holds2 \/ Holds3)) => result.summary.advice = GOOD
        /\ (~Holds1 /\ Holds2 /\ Holds3) => result.summary.advice = NORMAL

\* A call whose percentages meet rule 2 and rule 3 but not rule 1.
C10_Witness ==
    /\ Returned /\ called = "compute_advice_from_df" /\ TotalRecords > 0
    /\ ~Holds1 /\ Holds2 /\ Holds3 /\ result.summary.advice = NORMAL

\* The frame d with its rows in the order f (a permutation of the row numbers).
Permute(d, f) == Frame(d.columns, [ i \in DOMAIN d.rows |-> d.rows[f[i]] ])
\* The permutations of 1..n.
RowOrders(n) == { f \in [1..n -> 1..n] : \A i, j \in 1..n : f[i] = f[j] => i = j }

\* The aggregator that was called, applied to another frame.
Again(d) ==
    IF called = "compute_advice_from_df" THEN compute_advice_from_df(d) ELSE compute_summary(d)

Abs(x) == IF x < 0 THEN 0 - x ELSE x

RECURSIVE ScaleUp(_, _)
\* The least power of two p with p * n >= d (n >= 1).
ScaleUp(n, d) == IF n >= d THEN 1 ELSE 2 * ScaleUp(2 * n, d)

\* The quotients x and y (same n >= 1 and d, lo >= 0) are further apart than
\* the spacing of the doubles around them, so they are different doubles.
DifferentDoubles(x, y) ==
    /\ ~x.nan /\ ~y.nan /\ x.n >= 1
    /\ IF x.n >= x.d
       THEN Abs(x.lo - y.lo) > 2 * x.d * Pow2Floor(x.n \div x.d)
       ELSE Abs(x.lo - y.lo) * ScaleUp(x.n, x.d) > 2 * x.d

\* Equality of two summaries in every field but the low bits of the average.
SameExceptAvg(s, t) ==
    /\ s.counts = t.counts
    /\ s.positive = t.positive
    /\ s.neutral = t.neutral
    /\ s.negative = t.negative
    /\ s.advice = t.advice
    /\ s.avg_sentiment.nan = t.avg_sentiment.nan
    /\ s.avg_sentiment.n = t.avg_sentiment.n
    /\ s.avg_sentiment.d = t.avg_sentiment.d

\* C11 as stated: compute_advice_from_df returns the same Summary, every field
\* equal, whatever the order of the records.
C11_OrderIndependent ==
    (called = "compute_advice_from_df" /\ Returned) =>
        \A f \in RowOrders(Len(df.rows)) :
            LET other == Again(Permute(df, f))
            IN /\ other.raised = "none"
               /\ SameExceptAvg(result.summary, other.summary)
               /\ ~DifferentDoubles(result.summary.avg_sentiment,
                                    other.summary.avg_sentiment)

\* C11 amended: calling an aggregator again on the same collection returns
\* the same Summary, and in any order of the records the counts, the three
\* percentages and the advice are the same, and the sums behind avg_sentiment
\* differ by at most one rounding per addition.
C11_OrderIndependentUpToRounding ==
    Returned =>
        /\ Again(df) = result
        /\ \A f \in RowOrders(Len(df.rows)) :
              LET other == Again(Permute(df, f))
                  a == result.summary.avg_sentiment
                  b == other.summary.avg_sentiment
                  hi == IF a.lo > b.lo THEN a.lo ELSE b.lo
              IN /\ other.raised = "none"
                 /\ SameExceptAvg(result.summary, other.summary)
                 /\ Abs(a.lo - b.lo) <= Len(df.rows) * ulp(a.n, hi)

\* compute_advice_from_df returned for a frame of which another order of the
\* rows gives another avg_sentiment and the same counts.
C11_Witness ==
    /\ called = "compute_advice_from_df"
    /\ Returned
    /\ Cardinality(DOMAIN result.summary.counts) >= 2
    /\ \E f \in RowOrders(Len(df.rows)) :
          LET other == Again(Permute(df, f))
          IN /\ other.summary.counts = result.summary.counts
             /\ DifferentDoubles(result.summary.avg_sentiment, other.summary.avg_sentiment)

\* x and y are less than half a thousandth apart or equal that far apart.
WithinRounding(x, y) == ~x.nan /\ ~y.nan /\ Within(FSub(x, y), 5, 10000)

\* C14: for every record collection with both classifier columns,
\* compute_advice_from_df returns what compute_summary returns: the same
\* advice and counts, and the same percentages up to rounding to 3 decimals.
C14_AppMirrorsModel ==
    (called = "compute_advice_from_df" /\ HasFields /\ Returned) =>
        LET other == compute_summary(df)
        IN /\ other.raised = "none"
           /\ other.summary.advice = result.summary.advice
           /\ other.summary.counts = result.summary.counts
           /\ WithinRounding(other.summary.positive, result.summary.positive)
           /\ WithinRounding(other.summary.neutral, result.summary.neutral)
           /\ WithinRounding(other.summary.negative, result.summary.negative)

\* C19: in the file preprocess_news writes, every title is non-blank and
\* the titles are pairwise distinct.
C19_TitlesNonBlankAndDistinct ==
    preprocessed = "returned" =>
        LET t == processed_csv.titles
        IN /\ \A i \in DOMAIN t : t[i] # NoTitle /\ strip(t[i]) # Blank
           /\ \A i, j \in DOMAIN t : t[i] = t[j] => i = j

\* The steps after the i-th were not started in this request.
LaterNotRun(i) == \A j \in DOMAIN steps : j > i => work[steps[j]] = "notrun"

\* C15: run_pipeline runs ingestion.py, preprocess.py, model.py in this
\* order, each only after the one before returned 0; at the first non-zero
\* exit code it returns Failed naming that step and starts no later step; it
\* returns success only after all three returned 0.
C15_StepsInOrderUntilFailure ==
    /\ Len(logs) <= Len(steps)
    /\ \A i \in DOMAIN logs : logs[i].step = steps[i]
    /\ \A i \in DOMAIN logs : i < Len(logs) => logs[i].returncode = 0
    /\ LaterNotRun(Len(logs))
    /\ response.status = "Failed" =>
          /\ logs # <<>>
          /\ logs[Len(logs)].returncode # 0
          /\ response.step = logs[Len(logs)].step
    /\ response = Completed =>
          /\ Len(logs) = Len(steps)
          /\ \A i \in DOMAIN logs : logs[i].returncode = 0
    /\ pc = "returned" => response # NoResponse

\* run_pipeline returned Failed for preprocess.py, after ingestion.py returned 0.
C15_Witness ==
    /\ pc = "returned"
    /\ response = Failed("preprocess.py")
    /\ Len(logs) = 2 /\ logs[1].returncode = 0 /\ logs[2].returncode = 1
    /\ work["model.py"] = "notrun"

\* C17: run_pipeline returns success only if every step did its work; when
\* the main logic of a step failed, the later steps are not run and the
\* pipeline reports Failed.
C17_SuccessMeansWorkDone ==
    /\ response = Completed => \A i \in DOMAIN steps : work[steps[i]] = "done"
    /\ \A i \in DOMAIN steps :
          work[steps[i]] = "failed" =>
              /\ LaterNotRun(i)
              /\ pc = "returned" => response = Failed(steps[i])

\* C13: whatever the outcomes of dvc add, git add and git commit, once
\* model.py has computed the Summary, log_to_mlflow is called with that
\* Summary, after dvc_track ran dvc add.
C13_CommandsAreBestEffort ==
    metrics.raised = "none" =>
        /\ logged = metrics
        /\ cmds # <<>> /\ cmds[1].cmd = "dvc add"

\* A run of model.py in which a command could not be launched and another
\* exited non-zero, and the Summary was logged.
C13_Witness ==
    /\ metrics.raised = "none"
    /\ logged = metrics
    /\ \E i \in DOMAIN cmds : cmds[i].outcome = "oserror"
    /\ \E i \in DOMAIN cmds : cmds[i].outcome = "nonzero"

\* C16: when the processed directory has a file for load_latest_processed,
\* the file it selects is the preprocessing output of the latest date.
C16_LatestIsPreprocessOutput ==
    glob(files) # {} =>
        LET f == load_latest_processed(files)
        IN /\ f.kind = "news"
           /\ \A g \in files : (g.kind = "news" /\ ~g.dvc) => g.date <= f.date

\* The lookup in the tracking store has nothing to supply: it raises, there
\* is no experiment or no run, or the latest run has neither an advice param
\* nor a readable results file.
LookupFailed ==
    \/ store.state # "run"
    \/ store.advice = Null /\ store.artifact.kind # "csv"

\* C12: both endpoints consult the tracking store first and the processed
\* directory second, the second if and only if the first had nothing to
\* supply, and "source" names the backend the result came from.
C12_FallbackInPriorityOrder ==
    endpoint # "none" =>
        /\ consulted \in {<<"mlflow">>, <<"mlflow", "csv">>}
        /\ (consulted = <<"mlflow", "csv">>) <=> LookupFailed
        /\ reply.ok =>
              IF consulted = <<"mlflow", "csv">>
              THEN reply.source = "csv"
              ELSE reply.source \in {"mlflow", "mlflow_artifact"}

\* C18: the advice of every reply that is not an error is one of the four
\* verdicts or "NO DATA".
C18_AdviceIsVerdictOrNoData ==
    (endpoint # "none" /\ reply.ok) => reply.advice \in Verdicts \cup {NODATA}

====
